---- MODULE Spec2Model ----
(***************************************************************************)
(* A model of the roguelike's simulation core (src/src/main.rs): dungeon   *)
(* generation, the main loop (player action, monster turns, render) and    *)
(* the functions they call.                                                *)
(*                                                                         *)
(* Encodings.  Option<T> is a sequence of length 0 (None) or 1 (Some).     *)
(* Vec<Object> is a function over 0..len-1, so that indices are the        *)
(* program's indices.  The map, a Vec<Vec<Tile>>, is kept as the three     *)
(* sets of cells <<x, y>> whose tile has is_walkable, is_transparent and   *)
(* explored set.  The message log is kept as a bag of texts (the order of  *)
(* the log is not modelled).  Colours are not modelled.                    *)
(***************************************************************************)
EXTENDS Integers, Sequences, FiniteSets, Bags, TLC

VARIABLES
    objects,        \* main: objects (Vec<Object>)
    map,            \* game.map
    messages,       \* game.messages
    fov,            \* tcod.fov: the cells is_in_fov answers true for
    key,            \* tcod.key
    player_action,  \* main: player_action of the current loop iteration
    recompute_fov,  \* main: recompute_fov of the current loop iteration
    id,             \* main: the index of the monster-turn loop
    rooms,          \* make_map: rooms
    prev,           \* make_map: (prev_x, prev_y)
    iter,           \* make_map: number of iterations of the room loop done
    pc,             \* where the program is
    call            \* the call made by the last step, with its result

vars == <<objects, map, messages, fov, key, player_action, recompute_fov,
          id, rooms, prev, iter, pc, call>>

----------------------------------------------------------------------------
(* Constants of the program *)

PLAYER == 0

MAP_WIDTH == 80

MAP_HEIGHT == 43

MAX_ROOMS == 30

MAX_ROOM_WIDTH == 15

MIN_ROOM_WIDTH == 6

MAX_ROOM_HEIGHT == 10

MIN_ROOM_HEIGHT == 5

MAX_ROOM_MONSTERS == 3

TORCH_RADIUS == 10

----------------------------------------------------------------------------
(* Option<T> *)

None == <<>>

Some(v) == <<v>>

IsSome(o) == o # <<>>

Max(a, b) == IF a >= b THEN a ELSE b

Min(a, b) == IF a <= b THEN a ELSE b

Abs(a) == IF a >= 0 THEN a ELSE -a

Len0(v) == Cardinality(DOMAIN v)

Push(v, e) == [i \in 0..Len0(v) |-> IF i < Len0(v) THEN v[i] ELSE e]

----------------------------------------------------------------------------
(* Objects, fighters, death callbacks *)

ObjectNew(x, y, char, name) ==
    [x |-> x, y |-> y, char |-> char, name |-> name, fighter |-> None,
     ai |-> None, is_walkable |-> FALSE, is_alive |-> TRUE, was_seen |-> FALSE]

Pos(o) == <<o.x, o.y>>

SetPos(o, x, y) == [o EXCEPT !.x = x, !.y = y]

MessagesAdd(msgs, text) == msgs (+) SetToBag({text})

player_death(player, msgs) ==
    [object |-> [player EXCEPT !.char = "%"],
     messages |-> MessagesAdd(msgs, "You died!")]

MonsterDeathKeepsFighter(monster, msgs) ==
    [object |-> [monster EXCEPT !.char = "%",
                                !.is_walkable = TRUE,
                                !.ai = None,
                                !.name = "remains of " \o monster.name],
     messages |-> MessagesAdd(msgs, monster.name \o " is dead!")]

MonsterDeathStaysBlocking(monster, msgs) ==
    [object |-> [monster EXCEPT !.char = "%",
                                !.fighter = None,
                                !.ai = None,
                                !.name = "remains of " \o monster.name],
     messages |-> MessagesAdd(msgs, monster.name \o " is dead!")]

monster_death(monster, msgs) ==
    [object |-> [monster EXCEPT !.char = "%",
                                !.is_walkable = TRUE,
                                !.fighter = None,
                                !.ai = None,
                                !.name = "remains of " \o monster.name],
     messages |-> MessagesAdd(msgs, monster.name \o " is dead!")]

DeathCallback(variant, object, msgs) ==
    IF variant = "Player" THEN player_death(object, msgs)
                          ELSE monster_death(object, msgs)

TakeDamageNoClamp(self, damage, msgs) ==
    IF damage <= 0 \/ self.fighter = None
    THEN [object |-> self, messages |-> msgs]
    ELSE LET fighter == self.fighter[1] IN
         IF damage >= fighter.hp
         THEN DeathCallback(fighter.on_death,
                  [self EXCEPT !.fighter = Some([fighter EXCEPT !.hp = @ - damage]),
                               !.is_alive = FALSE],
                  msgs)
         ELSE [object |-> [self EXCEPT !.fighter = Some([fighter EXCEPT !.hp = @ - damage])],
               messages |-> msgs]

take_damage(self, damage, msgs) ==
    IF damage <= 0 \/ self.fighter = None
    THEN [object |-> self, messages |-> msgs]
    ELSE LET fighter == self.fighter[1] IN
         IF damage >= fighter.hp
         THEN DeathCallback(fighter.on_death,
                  [self EXCEPT !.fighter = Some([fighter EXCEPT !.hp = 0]),
                               !.is_alive = FALSE],
                  msgs)
         ELSE [object |-> [self EXCEPT !.fighter = Some([fighter EXCEPT !.hp = @ - damage])],
               messages |-> msgs]

FighterAttack(o) == IF o.fighter = None THEN 0 ELSE o.fighter[1].attack

FighterDefense(o) == IF o.fighter = None THEN 0 ELSE o.fighter[1].defense

AttackDamage(self, other) == FighterAttack(self) - FighterDefense(other)

AttackMessage(self, other, damage) ==
    self.name \o " attacks " \o other.name \o " for " \o ToString(damage) \o " damage"

NoEffectMessage(self, other) ==
    self.name \o " attacks " \o other.name \o " but it has no effect!"

(* attack leaves self alone; the result is the new other and the new log *)
AttackIgnoresDefense(self, other, msgs) ==
    LET damage == FighterAttack(self) IN
    IF damage > 0
    THEN take_damage(other, damage, MessagesAdd(msgs, AttackMessage(self, other, damage)))
    ELSE [object |-> other, messages |-> MessagesAdd(msgs, NoEffectMessage(self, other))]

attack(self, other, msgs) ==
    LET damage == AttackDamage(self, other) IN
    IF damage > 0
    THEN take_damage(other, damage, MessagesAdd(msgs, AttackMessage(self, other, damage)))
    ELSE [object |-> other, messages |-> MessagesAdd(msgs, NoEffectMessage(self, other))]

grid_distance_to(self, other) ==
    Max(Abs(other.x - self.x), Abs(other.y - self.y))

----------------------------------------------------------------------------
(* Movement *)

InGrid(x, y) == x >= 0 /\ x < MAP_WIDTH /\ y >= 0 /\ y < MAP_HEIGHT

is_blocked_by_object(x, y, objs) ==
    \E i \in DOMAIN objs : ~objs[i].is_walkable /\ Pos(objs[i]) = <<x, y>>

is_blocked(m, x, y, objs) ==
    IF <<x, y>> \notin m.is_walkable THEN TRUE
    ELSE is_blocked_by_object(x, y, objs)

(* the result is the new objects and the returned PlayerAction *)
MoveByIgnoresWalls(i, dx, dy, m, objs) ==
    LET next_x == objs[i].x + dx
        next_y == objs[i].y + dy
    IN  IF InGrid(next_x, next_y) /\ ~is_blocked_by_object(next_x, next_y, objs)
        THEN [objects |-> [objs EXCEPT ![i] = SetPos(@, next_x, next_y)],
              ret |-> "TookTurn"]
        ELSE [objects |-> objs, ret |-> "DidntTakeTurn"]

move_by(i, dx, dy, m, objs) ==
    LET next_x == objs[i].x + dx
        next_y == objs[i].y + dy
    IN  IF InGrid(next_x, next_y) /\ ~is_blocked(m, next_x, next_y, objs)
        THEN [objects |-> [objs EXCEPT ![i] = SetPos(@, next_x, next_y)],
              ret |-> "TookTurn"]
        ELSE [objects |-> objs, ret |-> "DidntTakeTurn"]

normalize(delta) == IF delta = 0 THEN 0 ELSE IF delta >= 1 THEN 1 ELSE -1

MoveTowardsVerticalFirst(i, target_x, target_y, m, objs) ==
    LET dx == normalize(target_x - objs[i].x)
        dy == normalize(target_y - objs[i].y)
        r1 == move_by(i, dx, dy, m, objs)
        r2 == move_by(i, 0, dy, m, r1.objects)
    IN  IF r1.ret # "DidntTakeTurn" THEN r1.objects
        ELSE IF r2.ret # "DidntTakeTurn" THEN r2.objects
        ELSE move_by(i, dx, 0, m, r2.objects).objects

move_towards(i, target_x, target_y, m, objs) ==
    LET dx == normalize(target_x - objs[i].x)
        dy == normalize(target_y - objs[i].y)
        r1 == move_by(i, dx, dy, m, objs)
        r2 == move_by(i, dx, 0, m, r1.objects)
    IN  IF r1.ret # "DidntTakeTurn" THEN r1.objects
        ELSE IF r2.ret # "DidntTakeTurn" THEN r2.objects
        ELSE move_by(i, 0, dy, m, r2.objects).objects

PlayerHpPositive(objs) ==
    IF objs[PLAYER].fighter = None THEN FALSE ELSE objs[PLAYER].fighter[1].hp > 0

(* assert_ne!(id, PLAYER) fails: panicked, nothing changed.  Otherwise     *)
(* act is "move" or "attack" or "none" (adjacent to a player with hp 0).   *)
AiTakeTurnMovesAndAttacks(i, m, msgs, objs) ==
    IF i = PLAYER
    THEN [objects |-> objs, messages |-> msgs, panicked |-> TRUE, act |-> "none"]
    ELSE LET moved == move_towards(i, objs[PLAYER].x, objs[PLAYER].y, m, objs)
             r == attack(moved[i], moved[PLAYER], msgs)
         IN  IF PlayerHpPositive(objs)
             THEN [objects |-> [moved EXCEPT ![PLAYER] = r.object],
                   messages |-> r.messages, panicked |-> FALSE, act |-> "attack"]
             ELSE [objects |-> objs, messages |-> msgs, panicked |-> FALSE,
                   act |-> "none"]

ai_take_turn(i, m, msgs, objs) ==
    IF i = PLAYER
    THEN [objects |-> objs, messages |-> msgs, panicked |-> TRUE, act |-> "none"]
    ELSE IF grid_distance_to(objs[i], objs[PLAYER]) > 1
    THEN [objects |-> move_towards(i, objs[PLAYER].x, objs[PLAYER].y, m, objs),
          messages |-> msgs, panicked |-> FALSE, act |-> "move"]
    ELSE IF PlayerHpPositive(objs)
    THEN LET r == attack(objs[i], objs[PLAYER], msgs)
         IN  [objects |-> [objs EXCEPT ![PLAYER] = r.object],
              messages |-> r.messages, panicked |-> FALSE, act |-> "attack"]
    ELSE [objects |-> objs, messages |-> msgs, panicked |-> FALSE, act |-> "none"]

(* position(): the least index of an object that matches, or -1 for None *)
TargetId(next_x, next_y, objs) ==
    LET hits == {i \in DOMAIN objs :
                    Pos(objs[i]) = <<next_x, next_y>> /\ objs[i].fighter # None}
    IN  IF hits = {} THEN -1 ELSE CHOOSE i \in hits : \A j \in hits : i <= j

TargetIdAnyObject(next_x, next_y, objs) ==
    LET hits == {i \in DOMAIN objs : Pos(objs[i]) = <<next_x, next_y>>}
    IN  IF hits = {} THEN -1 ELSE CHOOSE i \in hits : \A j \in hits : i <= j

(* split_at_mut(0) leaves player_slice empty, so player_slice[0] panics *)
PlayerMoveOrAttackWith(target_id, dx, dy, m, msgs, objs) ==
    IF target_id = -1
    THEN LET r == move_by(PLAYER, dx, dy, m, objs)
         IN  [objects |-> r.objects, messages |-> msgs, ret |-> r.ret,
              target |-> -1, panicked |-> FALSE]
    ELSE IF target_id = 0
    THEN [objects |-> objs, messages |-> msgs, ret |-> "DidntTakeTurn",
          target |-> 0, panicked |-> TRUE]
    ELSE LET r == attack(objs[PLAYER], objs[target_id], msgs)
         IN  [objects |-> [objs EXCEPT ![target_id] = r.object],
              messages |-> r.messages, ret |-> "TookTurn",
              target |-> target_id, panicked |-> FALSE]

PlayerMoveOrAttackAnyObject(dx, dy, m, msgs, objs) ==
    PlayerMoveOrAttackWith(
        TargetIdAnyObject(objs[PLAYER].x + dx, objs[PLAYER].y + dy, objs),
        dx, dy, m, msgs, objs)

player_move_or_attack(dx, dy, m, msgs, objs) ==
    PlayerMoveOrAttackWith(
        TargetId(objs[PLAYER].x + dx, objs[PLAYER].y + dy, objs),
        dx, dy, m, msgs, objs)

----------------------------------------------------------------------------
(* The tiles a call reads: the indices <<x, y>> of every map[x][y] it      *)
(* evaluates.  An index outside the grid makes the program panic.          *)

IsBlockedTiles(x, y) == {<<x, y>>}

MoveByTilesUnchecked(i, dx, dy, objs) ==
    IsBlockedTiles(objs[i].x + dx, objs[i].y + dy)

(* is_blocked is evaluated only if both range tests of move_by hold *)
MoveByTiles(i, dx, dy, objs) ==
    LET next_x == objs[i].x + dx
        next_y == objs[i].y + dy
    IN  IF InGrid(next_x, next_y) THEN IsBlockedTiles(next_x, next_y) ELSE {}

MoveTowardsTiles(i, target_x, target_y, m, objs) ==
    LET dx == normalize(target_x - objs[i].x)
        dy == normalize(target_y - objs[i].y)
        r1 == move_by(i, dx, dy, m, objs)
        r2 == move_by(i, dx, 0, m, r1.objects)
    IN  MoveByTiles(i, dx, dy, objs)
            \cup (IF r1.ret # "DidntTakeTurn" THEN {}
                  ELSE MoveByTiles(i, dx, 0, r1.objects)
                          \cup (IF r2.ret # "DidntTakeTurn" THEN {}
                                ELSE MoveByTiles(i, 0, dy, r2.objects)))

AiTakeTurnTiles(i, m, objs) ==
    IF i # PLAYER /\ grid_distance_to(objs[i], objs[PLAYER]) > 1
    THEN MoveTowardsTiles(i, objs[PLAYER].x, objs[PLAYER].y, m, objs)
    ELSE {}

PlayerMoveOrAttackTiles(dx, dy, objs) ==
    IF TargetId(objs[PLAYER].x + dx, objs[PLAYER].y + dy, objs) = -1
    THEN MoveByTiles(PLAYER, dx, dy, objs)
    ELSE {}

----------------------------------------------------------------------------
(* Rooms and carving *)

RectNew(x, y, w, h) == [x1 |-> x, y1 |-> y, x2 |-> x + w, y2 |-> y + h]

center(r) == <<(r.x1 + r.x2) \div 2, (r.y1 + r.y2) \div 2>>

IntersectsStrict(a, b) ==
    a.x1 < b.x2 /\ a.x2 > b.x1 /\ a.y1 < b.y2 /\ a.y2 > b.y1

intersects_with(a, b) ==
    a.x1 <= b.x2 /\ a.x2 >= b.x1 /\ a.y1 <= b.y2 /\ a.y2 >= b.y1

Interior(r) == {<<x, y>> : x \in (r.x1 + 1)..(r.x2 - 1), y \in (r.y1 + 1)..(r.y2 - 1)}

(* map[x][y] = Tile::empty() for every cell of cells *)
Carve(m, cells) ==
    [is_walkable |-> m.is_walkable \cup cells,
     is_transparent |-> m.is_transparent \cup cells,
     explored |-> m.explored \ cells]

make_room(room, m) == Carve(m, Interior(room))

MakeHTunnelForwardOnly(x1, x2, y, m) == Carve(m, {<<x, y>> : x \in x1..x2})

make_h_tunnel(x1, x2, y, m) == Carve(m, {<<x, y>> : x \in Min(x1, x2)..Max(x1, x2)})

make_v_tunnel(y1, y2, x, m) == Carve(m, {<<x, y>> : y \in Min(y1, y2)..Max(y1, y2)})

OrcFighterPlayerVariant ==
    [max_hp |-> 10, hp |-> 10, defense |-> 0, attack |-> 3, on_death |-> "Player"]

OrcFighter ==
    [max_hp |-> 10, hp |-> 10, defense |-> 0, attack |-> 3, on_death |-> "Monster"]

TrollFighter ==
    [max_hp |-> 16, hp |-> 16, defense |-> 1, attack |-> 4, on_death |-> "Monster"]

PlayerFighter ==
    [max_hp |-> 30, hp |-> 30, defense |-> 2, attack |-> 5, on_death |-> "Player"]

Orc(x, y) == [ObjectNew(x, y, "o", "orc") EXCEPT !.fighter = Some(OrcFighter), !.ai = Some("Ai")]

Troll(x, y) == [ObjectNew(x, y, "T", "troll") EXCEPT !.fighter = Some(TrollFighter), !.ai = Some("Ai")]

(* One slot of the loop of place_objects; d is what the rng gave for it:   *)
(* d.x, d.y the position, d.orc whether random::<f32>() < 0.8.             *)
PlaceOneNoCheck(d, objs) ==
    Push(objs, IF d.orc THEN Orc(d.x, d.y) ELSE Troll(d.x, d.y))

PlaceOne(d, objs) ==
    IF is_blocked_by_object(d.x, d.y, objs) THEN objs
    ELSE Push(objs, IF d.orc THEN Orc(d.x, d.y) ELSE Troll(d.x, d.y))

RECURSIVE PlaceFrom(_, _, _)
PlaceFrom(k, draws, objs) ==
    IF k > Len(draws) THEN objs
    ELSE PlaceFrom(k + 1, draws, PlaceOne(draws[k], objs))

(* draws: one entry per slot, Len(draws) = num_monsters *)
place_objects(room, draws, objs) == PlaceFrom(1, draws, objs)

----------------------------------------------------------------------------
(* Field of view.  tcod's FovMap is a library outside the repository; it   *)
(* is modelled by its contract: a cell is in the field of view if it is    *)
(* within the radius of the origin and every cell strictly between the     *)
(* origin and it, along the straight line, is transparent (walls are lit). *)

LinePoint(ox, oy, cx, cy, n, k) ==
    <<ox + ((2 * k * (cx - ox) + n) \div (2 * n)),
      oy + ((2 * k * (cy - oy) + n) \div (2 * n))>>

LineOfSight(ox, oy, cx, cy, transparent) ==
    LET n == Max(Abs(cx - ox), Abs(cy - oy))
    IN  \A k \in 1..(n - 1) : LinePoint(ox, oy, cx, cy, n, k) \in transparent

compute_fov(ox, oy, radius, transparent) ==
    {c \in (Max(0, ox - radius)..Min(MAP_WIDTH - 1, ox + radius))
            \X (Max(0, oy - radius)..Min(MAP_HEIGHT - 1, oy + radius)) :
        /\ (c[1] - ox) * (c[1] - ox) + (c[2] - oy) * (c[2] - oy) <= radius * radius
        /\ LineOfSight(ox, oy, c[1], c[2], transparent)}

RenderAllNeverRecomputes(objs, m, f, recompute) ==
    <<f, [m EXCEPT !.explored = @ \cup f]>>

RenderAllForgets(objs, m, f, recompute) ==
    LET f1 == IF recompute
              THEN compute_fov(objs[PLAYER].x, objs[PLAYER].y, TORCH_RADIUS, m.is_transparent)
              ELSE f
    IN  <<f1, [m EXCEPT !.explored = f1]>>

(* render_all, as far as it changes the state: the field of view and the   *)
(* explored flags.  The result is <<fov, map>>.                            *)
render_all(objs, m, f, recompute) ==
    LET f1 == IF recompute
              THEN compute_fov(objs[PLAYER].x, objs[PLAYER].y, TORCH_RADIUS, m.is_transparent)
              ELSE f
    IN  <<f1, [m EXCEPT !.explored = @ \cup f1]>>

----------------------------------------------------------------------------
(* Keys.  A key is modelled by what handle_keys matches on: "EnterAlt",    *)
(* "Escape", an arrow, a printable letter, "Other" for any other key press *)
(* and "Default" for Key::default().                                       *)

MoveKeys == {"Up", "Down", "Left", "Right", "k", "j", "h", "l", "y", "u", "b", "n"}

KeyDx(k) == IF k \in {"Left", "h", "y", "b"} THEN -1
            ELSE IF k \in {"Right", "l", "u", "n"} THEN 1 ELSE 0

KeyDy(k) == IF k \in {"Up", "k", "y", "u"} THEN -1
            ELSE IF k \in {"Down", "j", "b", "n"} THEN 1 ELSE 0

NoTurn(objs, msgs, ret) ==
    [objects |-> objs, messages |-> msgs, ret |-> ret, target |-> -1, panicked |-> FALSE]

HandleKeysWhenDead(k, m, msgs, objs) ==
    IF k = "EnterAlt" THEN NoTurn(objs, msgs, "DidntTakeTurn")
    ELSE IF k = "Escape" THEN NoTurn(objs, msgs, "Exit")
    ELSE IF k \in MoveKeys
    THEN player_move_or_attack(KeyDx(k), KeyDy(k), m, msgs, objs)
    ELSE NoTurn(objs, msgs, "DidntTakeTurn")

handle_keys(k, m, msgs, objs) ==
    IF k = "EnterAlt" THEN NoTurn(objs, msgs, "DidntTakeTurn")
    ELSE IF k = "Escape" THEN NoTurn(objs, msgs, "Exit")
    ELSE IF k \in MoveKeys /\ objs[PLAYER].is_alive
    THEN player_move_or_attack(KeyDx(k), KeyDy(k), m, msgs, objs)
    ELSE NoTurn(objs, msgs, "DidntTakeTurn")

HandleKeysTiles(k, objs) ==
    IF k \in MoveKeys /\ objs[PLAYER].is_alive
    THEN PlayerMoveOrAttackTiles(KeyDx(k), KeyDy(k), objs)
    ELSE {}

----------------------------------------------------------------------------
(* What the random number generator and the input source give.  The draws  *)
(* are subsets of the ranges the code draws from.                          *)

MaxDrawnMonsters == 1

(* The rooms rng.gen_range gives in make_map: the first candidate is the   *)
(* room in the corner of the map, a later candidate is that room again     *)
(* (which collides) or the room below it; the two are joined by a corridor *)
(* through two wall cells.                                                 *)
RoomDraws(n) ==
    IF n = 0 THEN {[x |-> 0, y |-> 0, w |-> 6, h |-> 5]}
    ELSE {[x |-> 0, y |-> 0, w |-> 6, h |-> 5], [x |-> 0, y |-> 6, w |-> 6, h |-> 5]}

LegalRoomDraw(r) ==
    /\ r.w \in MIN_ROOM_WIDTH..(MAX_ROOM_WIDTH - 1)
    /\ r.h \in MIN_ROOM_HEIGHT..(MAX_ROOM_HEIGHT - 1)
    /\ r.x \in 0..(MAP_WIDTH - r.w - 1)
    /\ r.y \in 0..(MAP_HEIGHT - r.h - 1)

LegalSpotDraw(room, c) ==
    /\ c[1] \in (room.x1 + 1)..(room.x2 - 1)
    /\ c[2] \in (room.y1 + 1)..(room.y2 - 1)

(* What the rng gives for a slot of place_objects: a troll at the room's   *)
(* centre, or an orc at the corner of its interior with the largest x, y.  *)
SlotDraws(room) ==
    {d \in {[x |-> center(room)[1], y |-> center(room)[2], orc |-> FALSE],
            [x |-> room.x2 - 1, y |-> room.y2 - 1, orc |-> TRUE]} :
        LegalSpotDraw(room, <<d.x, d.y>>)}

(* The first room gets no monster; a later room gets up to                 *)
(* MaxDrawnMonsters slots.                                                 *)
MonsterDraws(n, room) ==
    IF n = 0 THEN {<<>>}
    ELSE UNION {[1..k -> SlotDraws(room)] : k \in 0..Min(MAX_ROOM_MONSTERS, MaxDrawnMonsters)}

(* the key presses the input source delivers *)
KeyDraws == {"Right", "Left", "EnterAlt", "Escape"}

EventDraws ==
    {[type |-> "Key", key |-> k] : k \in KeyDraws}
        \cup {[type |-> "Mouse", key |-> "Default"], [type |-> "None", key |-> "Default"]}

----------------------------------------------------------------------------
(* The program *)

(* room and draws: the candidate of an iteration of make_map and what the   *)
(* rng gave to place_objects for it; tiles: the indices <<x, y>> with      *)
(* which the call read map[x][y]                                           *)
NoCall == [fn |-> "none", id |-> -1, dx |-> 0, dy |-> 0, target |-> -1,
           ret |-> "none", act |-> "none", room |-> None, draws |-> <<>>, tiles |-> {}]

(* main, lines 677-688, up to the first iteration of the loop of make_map *)
Init ==
    /\ objects = [i \in {PLAYER} |->
                     [ObjectNew(0, 0, "@", "Player") EXCEPT !.fighter = Some(PlayerFighter)]]
    /\ map = [is_walkable |-> {}, is_transparent |-> {}, explored |-> {}]
    /\ messages = EmptyBag
    /\ fov = {}
    /\ key = "Default"
    /\ player_action = "none"
    /\ recompute_fov = FALSE
    /\ id = 0
    /\ rooms = <<>>
    /\ prev = <<0, 0>>
    /\ iter = 0
    /\ pc = "make_map"
    /\ call = NoCall

(* One iteration of the loop of make_map, for the candidates room_draws the *)
(* rng may give and, for each candidate d, the draws monster_draws[d] it    *)
(* may give to place_objects.                                               *)
MakeMapStep(room_draws, monster_draws) ==
    /\ pc = "make_map"
    /\ iter < MAX_ROOMS
    /\ \E d \in room_draws : \E h_first \in BOOLEAN :
         /\ LegalRoomDraw(d)
         /\ LET room_rect == RectNew(d.x, d.y, d.w, d.h)
                blocked == \E k \in 1..Len(rooms) : intersects_with(room_rect, rooms[k])
                new == center(room_rect)
                m1 == make_room(room_rect, map)
            IN  IF blocked
                THEN /\ call' = [NoCall EXCEPT !.fn = "make_map", !.ret = "skipped",
                                                  !.room = Some(room_rect)]
                     /\ UNCHANGED <<objects, map, rooms, prev>>
                ELSE /\ \E draws \in monster_draws[d] :
                          LET placed == place_objects(room_rect, draws, objects)
                          IN  /\ objects' = IF rooms = <<>>
                                            THEN [placed EXCEPT ![PLAYER] = SetPos(@, new[1], new[2])]
                                            ELSE placed
                              /\ call' = [NoCall EXCEPT !.fn = "make_map", !.ret = "accepted",
                                                        !.room = Some(room_rect),
                                                        !.draws = draws]
                     /\ map' = IF rooms = <<>> THEN m1
                               ELSE IF h_first
                               THEN make_v_tunnel(prev[2], new[2], new[1],
                                        make_h_tunnel(prev[1], new[1], prev[2], m1))
                               ELSE make_h_tunnel(prev[1], new[1], new[2],
                                        make_v_tunnel(prev[2], new[2], prev[1], m1))
                     /\ prev' = new
                     /\ rooms' = Append(rooms, room_rect)
    /\ iter' = iter + 1
    /\ pc' = IF iter + 1 = MAX_ROOMS THEN "setup" ELSE "make_map"
    /\ UNCHANGED <<messages, fov, key, player_action, recompute_fov, id>>

(* one iteration of the loop of make_map *)
MakeMapIteration ==
    MakeMapStep(RoomDraws(iter),
                [d \in RoomDraws(iter) |-> MonsterDraws(iter, RectNew(d.x, d.y, d.w, d.h))])

(* main, lines 688-705: the field-of-view map is filled from the map, the  *)
(* welcome message is added and the first render computes the field of view *)
Setup ==
    /\ pc = "setup"
    /\ messages' = MessagesAdd(messages, "Welcome to the Tombs of the Ancient Kings!")
    /\ LET r == render_all(objects, map, fov, TRUE)
       IN  fov' = r[1] /\ map' = r[2]
    /\ pc' = "loop"
    /\ call' = [NoCall EXCEPT !.fn = "render_all"]
    /\ UNCHANGED <<objects, key, player_action, recompute_fov, id, rooms, prev, iter>>

(* the loop condition: the window was closed *)
WindowClosed ==
    /\ pc = "loop"
    /\ pc' = "exited"
    /\ call' = [NoCall EXCEPT !.fn = "window_closed"]
    /\ UNCHANGED <<objects, map, messages, fov, key, player_action, recompute_fov,
                   id, rooms, prev, iter>>

MonsterTurnsUngated(objs, action) == objs[PLAYER].is_alive

MonsterTurnsGate(objs, action) ==
    objs[PLAYER].is_alive /\ action # "DidntTakeTurn"

(* main, lines 708-724: the event is polled, handle_keys resolves the      *)
(* player's action, and the loop goes on to the monsters or to the render  *)
PlayerTurn ==
    /\ pc = "loop"
    /\ \E ev \in EventDraws :
         LET k == IF ev.type = "Mouse" THEN key
                  ELSE IF ev.type = "Key" THEN ev.key ELSE "Default"
             r == handle_keys(k, map, messages, objects)
         IN  /\ key' = k
             /\ call' = [NoCall EXCEPT !.fn = "handle_keys", !.id = PLAYER, !.dx = KeyDx(k),
                                       !.dy = KeyDy(k), !.target = r.target, !.ret = r.ret,
                                       !.act = ev.type, !.tiles = HandleKeysTiles(k, objects)]
             /\ player_action' = r.ret
             /\ IF r.panicked
                THEN /\ pc' = "panicked"
                     /\ UNCHANGED <<objects, messages, recompute_fov, id>>
                ELSE IF r.ret = "Exit"
                THEN /\ pc' = "exited"
                     /\ UNCHANGED <<objects, messages, recompute_fov, id>>
                ELSE /\ objects' = r.objects
                     /\ messages' = r.messages
                     /\ recompute_fov' = (Pos(objects[PLAYER]) # Pos(r.objects[PLAYER]))
                     /\ id' = 0
                     /\ pc' = IF MonsterTurnsGate(r.objects, r.ret) THEN "monsters" ELSE "render"
    /\ UNCHANGED <<map, fov, rooms, prev, iter>>

MayActWithoutAi(ob) == ob.is_alive /\ ob.was_seen

MayActUnseen(ob) == ob.is_alive /\ IsSome(ob.ai)

MayAct(ob) == ob.is_alive /\ IsSome(ob.ai) /\ ob.was_seen

Seen(ob, f) ==
    IF ~ob.was_seen /\ Pos(ob) \in f THEN [ob EXCEPT !.was_seen = TRUE] ELSE ob

(* main, lines 725-738: one iteration of the loop over the objects *)
MonsterTurn ==
    /\ pc = "monsters"
    /\ id < Len0(objects)
    /\ LET objs1 == [objects EXCEPT ![id] = Seen(@, fov)]
           r == ai_take_turn(id, map, messages, objs1)
       IN  IF MayAct(objs1[id])
           THEN /\ objects' = r.objects
                /\ messages' = r.messages
                /\ call' = [NoCall EXCEPT !.fn = "ai_take_turn", !.id = id, !.act = r.act,
                                          !.tiles = AiTakeTurnTiles(id, map, objs1)]
                /\ pc' = IF r.panicked THEN "panicked"
                         ELSE IF id + 1 = Len0(objects) THEN "render" ELSE "monsters"
           ELSE /\ objects' = objs1
                /\ messages' = messages
                /\ call' = [NoCall EXCEPT !.fn = "skip", !.id = id]
                /\ pc' = IF id + 1 = Len0(objects) THEN "render" ELSE "monsters"
    /\ id' = id + 1
    /\ UNCHANGED <<map, fov, key, player_action, recompute_fov, rooms, prev, iter>>

(* main, line 741 *)
Render ==
    /\ pc = "render"
    /\ LET r == render_all(objects, map, fov, recompute_fov)
       IN  fov' = r[1] /\ map' = r[2]
    /\ pc' = "loop"
    /\ call' = [NoCall EXCEPT !.fn = "render_all"]
    /\ UNCHANGED <<objects, messages, key, player_action, recompute_fov, id, rooms, prev, iter>>

Next ==
    \/ MakeMapIteration
    \/ Setup
    \/ WindowClosed
    \/ PlayerTurn
    \/ MonsterTurn
    \/ Render

Spec == Init /\ [][Next]_vars

----------------------------------------------------------------------------
(* Generation on its own: make_map and the first render, with more of what *)
(* the rng may give.                                                       *)

(* Candidates in the corner of the map.  The first is the corner room or   *)
(* the room diagonally below it; the next two are one of: the corner room, *)
(* the room below it, the room right of it, the room diagonally below it,  *)
(* a room that touches the corner room's right edge, and a room that       *)
(* overlaps the corner room.  Every later candidate is the overlapping     *)
(* room, which collides with either first room.                            *)
GenRoomDraws(n) ==
    IF n = 0
    THEN {[x |-> 0, y |-> 0, w |-> 6, h |-> 5], [x |-> 7, y |-> 6, w |-> 7, h |-> 6]}
    ELSE IF n <= 2
    THEN {[x |-> 0, y |-> 0, w |-> 6, h |-> 5], [x |-> 0, y |-> 6, w |-> 6, h |-> 5],
          [x |-> 7, y |-> 0, w |-> 6, h |-> 5], [x |-> 7, y |-> 6, w |-> 7, h |-> 6],
          [x |-> 6, y |-> 0, w |-> 6, h |-> 5], [x |-> 3, y |-> 3, w |-> 6, h |-> 5]}
    ELSE {[x |-> 3, y |-> 3, w |-> 6, h |-> 5]}

(* The first candidate gets any number of slots place_objects may draw,    *)
(* a later one at most one.                                                *)
GenMonsterDraws(n, room) ==
    UNION {[1..k -> SlotDraws(room)] : k \in 0..(IF n = 0 THEN MAX_ROOM_MONSTERS ELSE 1)}

GenIteration ==
    MakeMapStep(GenRoomDraws(iter),
                [d \in GenRoomDraws(iter) |->
                    GenMonsterDraws(iter, RectNew(d.x, d.y, d.w, d.h))])

NextGen ==
    \/ GenIteration
    \/ Setup

SpecGen == Init /\ [][NextGen]_vars

----------------------------------------------------------------------------
(* The functions on their own: a world is drawn, and one function is       *)
(* called on it.                                                           *)

MaxOthers == 1

(* the corner of the map the world lies in: a block of 3 x 3 cells *)
OriginDraws == {<<0, 0>>, <<MAP_WIDTH - 3, MAP_HEIGHT - 3>>}

Block(o) == {<<o[1] + a, o[2] + b>> : a \in 0..2, b \in 0..2}

(* the wall cells inside the block; every cell outside the block is wall *)
WallDraws(o) ==
    {{},
     {<<o[1] + 1, o[2] + 1>>},
     {<<o[1] + 1, o[2] + 1>>, <<o[1] + 1, o[2] + 2>>},
     {<<o[1] + 1, o[2] + 1>>, <<o[1] + 1, o[2] + 2>>, <<o[1] + 2, o[2] + 1>>}}

Player(x, y, hp) ==
    [ObjectNew(x, y, "@", "Player") EXCEPT !.fighter = Some([PlayerFighter EXCEPT !.hp = hp])]

(* the player as the program makes it: unhurt, nearly dead, and dead *)
PlayerDraws(o) ==
    {Player(c[1], c[2], hp) : c \in {o, <<o[1] + 2, o[2] + 2>>}, hp \in {30, 1}}
        \cup {take_damage(Player(c[1], c[2], 1), 1, EmptyBag).object :
                 c \in {o, <<o[1] + 2, o[2] + 2>>}}

(* a fighter that no attack of the program's archetypes harms *)
Statue(x, y) ==
    [ObjectNew(x, y, "S", "statue") EXCEPT
        !.fighter = Some([max_hp |-> 3, hp |-> 3, defense |-> 5, attack |-> 1,
                          on_death |-> "Monster"]),
        !.ai = Some("Ai")]

OtherAt(kind, x, y) ==
    IF kind = "orc" THEN Orc(x, y)
    ELSE IF kind = "hurt orc" THEN take_damage(Orc(x, y), 5, EmptyBag).object
    ELSE IF kind = "troll" THEN Troll(x, y)
    ELSE IF kind = "corpse" THEN take_damage(Orc(x, y), 10, EmptyBag).object
    ELSE Statue(x, y)

OtherDraws(o) ==
    {[OtherAt(kind, c[1], c[2]) EXCEPT !.was_seen = TRUE] :
        kind \in {"orc", "hurt orc", "troll", "corpse", "statue"},
        c \in {<<o[1] + 2, o[2] + 2>>, <<o[1] + 1, o[2] + 1>>, <<o[1] + 1, o[2]>>,
                <<o[1], o[2] + 2>>}}

KeyCodes == MoveKeys \cup {"EnterAlt", "Escape", "Other", "Default"}

InitOps ==
    /\ \E o \in OriginDraws : \E walls \in WallDraws(o) : \E n \in 0..MaxOthers :
       \E p \in PlayerDraws(o) : \E others \in [1..n -> OtherDraws(o)] :
         /\ map = [is_walkable |-> Block(o) \ walls, is_transparent |-> Block(o) \ walls,
                   explored |-> {}]
         /\ objects = [i \in 0..n |-> IF i = PLAYER THEN p ELSE others[i]]
         /\ \A i \in 0..n : Pos(objects[i]) \in map.is_walkable
    /\ messages = EmptyBag
    /\ fov = {}
    /\ key = "Default"
    /\ player_action = "none"
    /\ recompute_fov = FALSE
    /\ id = 0
    /\ rooms = <<>>
    /\ prev = <<0, 0>>
    /\ iter = 0
    /\ pc = "ops"
    /\ call = NoCall

OpFrame == UNCHANGED <<map, fov, player_action, recompute_fov, id, rooms, prev, iter>>

OpMoveBy ==
    /\ pc = "ops"
    /\ \E i \in DOMAIN objects : \E dx \in -1..1 : \E dy \in -1..1 :
         LET r == move_by(i, dx, dy, map, objects)
         IN  /\ objects' = r.objects
             /\ call' = [NoCall EXCEPT !.fn = "move_by", !.id = i, !.dx = dx, !.dy = dy,
                                       !.ret = r.ret, !.tiles = MoveByTiles(i, dx, dy, objects)]
    /\ pc' = "done"
    /\ UNCHANGED <<messages, key>>
    /\ OpFrame

OpAttack ==
    /\ pc = "ops"
    /\ \E a \in DOMAIN objects : \E b \in DOMAIN objects \ {a} :
         LET r == attack(objects[a], objects[b], messages)
         IN  /\ objects' = [objects EXCEPT ![b] = r.object]
             /\ messages' = r.messages
             /\ call' = [NoCall EXCEPT !.fn = "attack", !.id = a, !.target = b]
    /\ pc' = "done"
    /\ UNCHANGED key
    /\ OpFrame

(* the call main makes for an object that may act *)
OpAiTakeTurn ==
    /\ pc = "ops"
    /\ \E i \in DOMAIN objects :
         /\ MayAct(objects[i])
         /\ LET r == ai_take_turn(i, map, messages, objects)
            IN  /\ objects' = r.objects
                /\ messages' = r.messages
                /\ call' = [NoCall EXCEPT !.fn = "ai_take_turn", !.id = i, !.act = r.act,
                                          !.tiles = AiTakeTurnTiles(i, map, objects)]
                /\ pc' = IF r.panicked THEN "panicked" ELSE "done"
    /\ UNCHANGED key
    /\ OpFrame

OpHandleKeys ==
    /\ pc = "ops"
    /\ \E k \in KeyCodes :
         LET r == handle_keys(k, map, messages, objects)
         IN  /\ key' = k
             /\ objects' = r.objects
             /\ messages' = r.messages
             /\ call' = [NoCall EXCEPT !.fn = "handle_keys", !.id = PLAYER, !.dx = KeyDx(k),
                                       !.dy = KeyDy(k), !.target = r.target, !.ret = r.ret,
                                       !.tiles = HandleKeysTiles(k, objects)]
             /\ pc' = IF r.panicked THEN "panicked" ELSE "done"
    /\ OpFrame

(* The rooms at the ends of the ranges make_map draws from: the least and *)
(* the greatest width and height, in the corners of the map.               *)
EdgeRoomDraws ==
    {[x |-> x, y |-> y, w |-> w, h |-> h] :
        w \in {MIN_ROOM_WIDTH, MAX_ROOM_WIDTH - 1},
        h \in {MIN_ROOM_HEIGHT, MAX_ROOM_HEIGHT - 1},
        x \in {0, MAP_WIDTH - MAX_ROOM_WIDTH, MAP_WIDTH - MIN_ROOM_WIDTH - 1},
        y \in {0, MAP_HEIGHT - MAX_ROOM_HEIGHT, MAP_HEIGHT - MIN_ROOM_HEIGHT - 1}}

(* the carving calls are made on the worlds with the player alone *)
OpMakeRoom ==
    /\ pc = "ops"
    /\ Len0(objects) = 1
    /\ \E d \in EdgeRoomDraws :
         /\ LegalRoomDraw(d)
         /\ map' = make_room(RectNew(d.x, d.y, d.w, d.h), map)
         /\ call' = [NoCall EXCEPT !.fn = "make_room",
                                   !.room = Some(RectNew(d.x, d.y, d.w, d.h))]
    /\ pc' = "done"
    /\ UNCHANGED <<objects, messages, fov, key, player_action, recompute_fov, id, rooms,
                   prev, iter>>

(* the two tunnels make_map carves from the centre of one room to the      *)
(* centre of another, in either order                                      *)
OpMakeTunnels ==
    /\ pc = "ops"
    /\ Len0(objects) = 1
    /\ \E a \in EdgeRoomDraws : \E b \in EdgeRoomDraws : \E h_first \in BOOLEAN :
         /\ LegalRoomDraw(a)
         /\ LegalRoomDraw(b)
         /\ LET old == center(RectNew(a.x, a.y, a.w, a.h))
                new == center(RectNew(b.x, b.y, b.w, b.h))
            IN  /\ map' = IF h_first
                          THEN make_v_tunnel(old[2], new[2], new[1],
                                   make_h_tunnel(old[1], new[1], old[2], map))
                          ELSE make_h_tunnel(old[1], new[1], new[2],
                                   make_v_tunnel(old[2], new[2], old[1], map))
                /\ prev' = new
                /\ call' = [NoCall EXCEPT !.fn = "make_tunnels",
                                          !.room = Some(RectNew(b.x, b.y, b.w, b.h))]
    /\ pc' = "done"
    /\ UNCHANGED <<objects, messages, fov, key, player_action, recompute_fov, id, rooms, iter>>

NextOps ==
    \/ OpMoveBy
    \/ OpAttack
    \/ OpAiTakeTurn
    \/ OpHandleKeys
    \/ OpMakeRoom
    \/ OpMakeTunnels

SpecOps == InitOps /\ [][NextOps]_vars

----------------------------------------------------------------------------
(* Properties *)

(* the hit points as render_all reads them: 0 for an object with no Fighter *)
HpOf(o) == IF o.fighter = None THEN 0 ELSE o.fighter[1].hp

OthersSame(S) == \A j \in DOMAIN objects \ S : objects'[j] = objects[j]

SameObjects == DOMAIN objects' = DOMAIN objects

(* a cell an object may step on: in the grid, walkable, no blocking object *)
Free(x, y) ==
    /\ InGrid(x, y)
    /\ <<x, y>> \in map.is_walkable
    /\ \A j \in DOMAIN objects : objects[j].is_walkable \/ Pos(objects[j]) # <<x, y>>

(* C1: in a loop iteration whose player action is DidntTakeTurn, no step   *)
(* changes any object other than the player: position, hp, is_alive and    *)
(* was_seen of every monster stay as they were, and no object is added.    *)
C1_TurnGating ==
    [][player_action' = "DidntTakeTurn" => SameObjects /\ OthersSame({PLAYER})]_vars

(* a living player's move was blocked while a monster that may act waits *)
C1_Witness ==
    /\ pc = "render"
    /\ player_action = "DidntTakeTurn"
    /\ key \in MoveKeys
    /\ objects[PLAYER].is_alive
    /\ \E i \in DOMAIN objects \ {PLAYER} :
         MayAct(objects[i]) /\ grid_distance_to(objects[i], objects[PLAYER]) > 1

(* C2: move_by(id, dx, dy) returns TookTurn and puts the object at         *)
(* (x+dx, y+dy) exactly if that cell is in the grid, walkable and holds no *)
(* blocking object; otherwise it returns DidntTakeTurn and the object      *)
(* stays.  No other object and no tile changes.                            *)
C2_MoveBy ==
    [][call'.fn = "move_by" =>
          LET i == call'.id
              x == objects[i].x + call'.dx
              y == objects[i].y + call'.dy
          IN  /\ call'.ret = (IF Free(x, y) THEN "TookTurn" ELSE "DidntTakeTurn")
              /\ SameObjects
              /\ objects'[i] = (IF Free(x, y) THEN [objects[i] EXCEPT !.x = x, !.y = y]
                                ELSE objects[i])
              /\ OthersSame({i})
              /\ map' = map]_vars

(* a move that succeeded, by a real step *)
C2_Witness ==
    /\ pc = "done"
    /\ call.fn = "move_by"
    /\ call.ret = "TookTurn"
    /\ <<call.dx, call.dy>> # <<0, 0>>

(* C3: attack(A, B) on a B with a Fighter, d = A.attack - B.defense:       *)
(* d <= 0 leaves B as it was and adds exactly one "no effect" message;     *)
(* 0 < d < B.hp takes d from B.hp and changes nothing else of B;           *)
(* d >= B.hp leaves B with hp 0 (never negative) and not alive.            *)
(* A, and every other object, is never changed.                            *)
C3_CombatArithmetic ==
    [][(call'.fn = "attack" /\ objects[call'.target].fighter # None) =>
          LET A == objects[call'.id]
              B == objects[call'.target]
              B1 == objects'[call'.target]
              d == (IF A.fighter = None THEN 0 ELSE A.fighter[1].attack) - B.fighter[1].defense
              hp == B.fighter[1].hp
          IN  /\ SameObjects
              /\ OthersSame({call'.target})
              /\ d <= 0 =>
                   /\ B1 = B
                   /\ messages' = messages (+) SetToBag({A.name \o " attacks " \o B.name
                                                           \o " but it has no effect!"})
              /\ (0 < d /\ d < hp) =>
                   /\ B1 = [B EXCEPT !.fighter = Some([B.fighter[1] EXCEPT !.hp = hp - d])]
                   /\ B1.is_alive = B.is_alive
              /\ d > 0 => CopiesIn(A.name \o " attacks " \o B.name \o " but it has no effect!",
                                   messages') = 0
              /\ (0 < d /\ d >= hp) =>
                   /\ ~B1.is_alive
                   /\ HpOf(B1) = 0
                   /\ B1.fighter # None => B1.fighter[1].hp = 0]_vars

(* an attack that had no effect on a defender with a Fighter *)
C3_Witness ==
    /\ pc = "done"
    /\ call.fn = "attack"
    /\ objects[call.target].fighter # None
    /\ BagCardinality(messages) = 1
    /\ BagIn(NoEffectMessage(objects[call.id], objects[call.target]), messages)

LethalAttack ==
    /\ call'.fn = "attack"
    /\ objects[call'.target].fighter # None
    /\ AttackDamage(objects[call'.id], objects[call'.target]) > 0
    /\ AttackDamage(objects[call'.id], objects[call'.target])
          >= objects[call'.target].fighter[1].hp

(* C4, as claimed: an entity that receives lethal damage, the player or a  *)
(* monster, ends not alive, without fighter and ai, and walkable; a        *)
(* monster is renamed "remains of X".                                      *)
C4_DeathTransitionAsClaimed ==
    [][LethalAttack =>
          LET B == objects[call'.target]
              B1 == objects'[call'.target]
          IN  /\ ~B1.is_alive
              /\ B1.fighter = None
              /\ B1.ai = None
              /\ B1.is_walkable
              /\ B.fighter[1].on_death = "Monster" => B1.name = "remains of " \o B.name]_vars

(* C4, amended: an entity that receives lethal damage ends not alive.  A   *)
(* monster (Monster death variant) also loses fighter and ai, becomes      *)
(* walkable and is renamed "remains of X".  The player (Player death       *)
(* variant) keeps its Fighter, with hp 0, keeps is_walkable = false and    *)
(* its name, and "You died!" is added to the log.                          *)
C4_DeathTransition ==
    [][LethalAttack =>
          LET B == objects[call'.target]
              B1 == objects'[call'.target]
          IN  /\ ~B1.is_alive
              /\ B.fighter[1].on_death = "Monster" =>
                   /\ B1.fighter = None
                   /\ B1.ai = None
                   /\ B1.is_walkable
                   /\ B1.name = "remains of " \o B.name
              /\ B.fighter[1].on_death = "Player" =>
                   /\ B1.fighter = Some([B.fighter[1] EXCEPT !.hp = 0])
                   /\ B1.is_walkable = B.is_walkable
                   /\ B1.name = B.name
                   /\ CopiesIn("You died!", messages') = CopiesIn("You died!", messages) + 1]_vars

(* the player has just been killed by an attack, and keeps its Fighter *)
C4_Witness ==
    /\ pc = "done"
    /\ call.fn = "attack"
    /\ call.target = PLAYER
    /\ ~objects[PLAYER].is_alive
    /\ objects[PLAYER].fighter # None
    /\ ~objects[PLAYER].is_walkable
    /\ BagIn("You died!", messages)

(* C5: the player's attack never has index 0 as its target, and            *)
(* ai_take_turn is never called with id = 0: neither split_at_mut(0) nor   *)
(* assert_ne!(id, PLAYER) ever panics.                                     *)
C5_IndexZero ==
    /\ pc # "panicked"
    /\ call.fn = "handle_keys" => call.target # PLAYER
    /\ call.fn = "ai_take_turn" => call.id # PLAYER

(* the monster-turn loop has just passed over index 0, whose object is     *)
(* alive and flagged as seen, after the player resolved an attack          *)
C5_Witness ==
    /\ pc = "monsters"
    /\ call.fn = "skip"
    /\ call.id = PLAYER
    /\ objects[PLAYER].is_alive
    /\ objects[PLAYER].was_seen
    /\ key \in MoveKeys
    /\ player_action = "TookTurn"
    /\ ~recompute_fov

Sign(d) == IF d > 0 THEN 1 ELSE IF d < 0 THEN -1 ELSE 0

(* C6: a monster that may act and is farther than 1 from the player takes  *)
(* at most one step: the combined step (sx, sy) if that cell is free, else *)
(* the step (sx, 0) if free, else the step (0, sy) if free, else none.  It *)
(* does not attack: the player and the log are unchanged.                  *)
C6_GreedyPursuit ==
    [][(/\ call'.fn = "ai_take_turn"
        /\ grid_distance_to(objects[call'.id], objects[PLAYER]) > 1) =>
          LET i == call'.id
              x == objects[i].x
              y == objects[i].y
              sx == Sign(objects[PLAYER].x - x)
              sy == Sign(objects[PLAYER].y - y)
              to == IF Free(x + sx, y + sy) THEN <<x + sx, y + sy>>
                    ELSE IF Free(x + sx, y) THEN <<x + sx, y>>
                    ELSE IF Free(x, y + sy) THEN <<x, y + sy>>
                    ELSE <<x, y>>
          IN  /\ SameObjects
              /\ objects'[i] = [objects[i] EXCEPT !.x = to[1], !.y = to[2]]
              /\ OthersSame({i})
              /\ messages' = messages
              /\ call'.act = "move"]_vars

(* a monster took the horizontal step because the combined one was blocked: *)
(* no object is drawn at that cell, so the monster in it came from the corner *)
C6_Witness ==
    /\ pc = "done"
    /\ call.fn = "ai_take_turn"
    /\ call.act = "move"
    /\ \E o \in OriginDraws :
         /\ Pos(objects[call.id]) = <<o[1] + 1, o[2] + 2>>
         /\ Pos(objects[PLAYER]) = o
         /\ <<o[1] + 1, o[2] + 1>> \notin map.is_walkable

(* the step of the monster-turn loop for object i, when i may act *)
TurnOf(i) ==
    /\ pc = "monsters"
    /\ id = i
    /\ id' = i + 1
    /\ i # PLAYER
    /\ objects[i].is_alive
    /\ objects[i].ai # None
    /\ objects'[i].was_seen

(* C7: a living, aware monster within distance 1 of a living player makes, *)
(* in its turn, exactly one attack on the player (one attack message, the  *)
(* player's hp down by the damage or to 0) and stays where it is.  No      *)
(* monster both moves and attacks in one turn.                             *)
C7_AdjacentAttack ==
    [][\A i \in DOMAIN objects : TurnOf(i) =>
          LET M == objects[i]
              P == objects[PLAYER]
              d == M.fighter[1].attack - P.fighter[1].defense
              text == M.name \o " attacks Player for " \o ToString(d) \o " damage"
          IN  /\ (grid_distance_to(M, P) <= 1 /\ P.is_alive) =>
                   /\ call'.act = "attack"
                   /\ Pos(objects'[i]) = Pos(M)
                   /\ CopiesIn(text, messages') = CopiesIn(text, messages) + 1
                   /\ BagCardinality(messages') =
                        BagCardinality(messages) + (IF d >= HpOf(P) THEN 2 ELSE 1)
                   /\ HpOf(objects'[PLAYER]) = (IF d >= HpOf(P) THEN 0 ELSE HpOf(P) - d)
                   /\ OthersSame({i, PLAYER})
              /\ Pos(objects'[i]) # Pos(M) =>
                   /\ messages' = messages
                   /\ objects'[PLAYER] = P]_vars

(* a monster next to the living player has just attacked it *)
C7_Witness ==
    /\ call.fn = "ai_take_turn"
    /\ call.act = "attack"
    /\ objects[PLAYER].is_alive
    /\ HpOf(objects[PLAYER]) < 30
    /\ grid_distance_to(objects[call.id], objects[PLAYER]) = 1

(* C8: was_seen, once true, stays true.  An object other than the player   *)
(* changes position, or has ai_take_turn called for it, only in a step     *)
(* that finds it alive, with an AI, and leaves it flagged as seen; an      *)
(* object whose flag is false after a step did not act in it.              *)
C8_Awareness ==
    [][\A i \in DOMAIN objects :
          /\ objects[i].was_seen => objects'[i].was_seen
          /\ (i # PLAYER
                /\ (Pos(objects'[i]) # Pos(objects[i])
                      \/ (call'.fn = "ai_take_turn" /\ call'.id = i))) =>
               /\ objects[i].is_alive
               /\ objects[i].ai # None
               /\ objects'[i].was_seen
               /\ call'.fn = "ai_take_turn" /\ call'.id = i
          /\ (i # PLAYER /\ pc = "monsters" /\ ~objects'[i].was_seen) =>
               /\ objects'[i] = objects[i]
               /\ (id = i => messages' = messages /\ objects'[PLAYER] = objects[PLAYER])]_vars

(* the monster-turn loop has just passed over a living monster with an AI  *)
(* that is not aware, and left it alone                                    *)
C8_Witness ==
    /\ call.fn = "skip"
    /\ call.id # PLAYER
    /\ objects[call.id].is_alive
    /\ objects[call.id].ai # None
    /\ ~objects[call.id].was_seen

(* C9: a directional key of a living player, with an object that has a     *)
(* Fighter on the target cell, is resolved as exactly one attack on the    *)
(* first such object: the outcome is TookTurn whatever the damage, and the *)
(* player stays.  With no such object (a corpse at most) nothing is        *)
(* attacked and the key is resolved as a move.                             *)
C9_PlayerAttack ==
    [][(call'.fn = "handle_keys" /\ key' \in MoveKeys /\ objects[PLAYER].is_alive) =>
          LET P == objects[PLAYER]
              x == P.x + call'.dx
              y == P.y + call'.dy
              F == {j \in DOMAIN objects : Pos(objects[j]) = <<x, y>> /\ objects[j].fighter # None}
          IN  /\ SameObjects
              /\ F # {} =>
                   \E t \in F :
                     LET B == objects[t]
                         d == P.fighter[1].attack - B.fighter[1].defense
                         hit == P.name \o " attacks " \o B.name \o " for " \o ToString(d) \o " damage"
                         miss == P.name \o " attacks " \o B.name \o " but it has no effect!"
                         dead == B.name \o " is dead!"
                     IN  /\ call'.target = t
                         /\ call'.ret = "TookTurn"
                         /\ objects'[PLAYER] = P
                         /\ OthersSame({t})
                         /\ messages' = (IF d <= 0 THEN messages (+) SetToBag({miss})
                                         ELSE IF d >= HpOf(B)
                                         THEN messages (+) SetToBag({hit}) (+) SetToBag({dead})
                                         ELSE messages (+) SetToBag({hit}))
                         /\ HpOf(objects'[t]) = (IF d <= 0 THEN HpOf(B)
                                                 ELSE IF d >= HpOf(B) THEN 0 ELSE HpOf(B) - d)
              /\ F = {} =>
                   /\ call'.target = -1
                   /\ messages' = messages
                   /\ OthersSame({PLAYER})
                   /\ call'.ret = (IF Free(x, y) THEN "TookTurn" ELSE "DidntTakeTurn")
                   /\ objects'[PLAYER] = (IF Free(x, y) THEN [P EXCEPT !.x = x, !.y = y] ELSE P)]_vars

(* the player has just stepped onto a corpse, which was not attacked *)
C9_Witness ==
    /\ pc = "done"
    /\ call.fn = "handle_keys"
    /\ call.ret = "TookTurn"
    /\ call.target = -1
    /\ messages = EmptyBag
    /\ \E j \in DOMAIN objects \ {PLAYER} :
         ~objects[j].is_alive /\ Pos(objects[j]) = Pos(objects[PLAYER])

AfterSetup == pc \in {"loop", "monsters", "render", "exited"}

PlayerVariant(S) ==
    {i \in S : objects[i].fighter # None /\ objects[i].fighter[1].on_death = "Player"}

(* C10, as claimed: after set-up exactly one living entity has the Player  *)
(* death variant, and it is the entity at index 0.                         *)
C10_PlayerVariantAsClaimed ==
    AfterSetup => PlayerVariant({i \in DOMAIN objects : objects[i].is_alive}) = {PLAYER}

(* C10, amended: after set-up exactly one entity has the Player death      *)
(* variant, and it is the entity at index 0; it is the only living one     *)
(* with that variant as long as the player is alive, and once the player   *)
(* has died no living entity has it.                                       *)
C10_PlayerVariant ==
    AfterSetup =>
        /\ PlayerVariant(DOMAIN objects) = {PLAYER}
        /\ PlayerVariant({i \in DOMAIN objects : objects[i].is_alive})
              = (IF objects[PLAYER].is_alive THEN {PLAYER} ELSE {})

(* the player has died in play, next to a living monster *)
C10_Witness ==
    /\ AfterSetup
    /\ ~objects[PLAYER].is_alive
    /\ \E i \in DOMAIN objects \ {PLAYER} : objects[i].is_alive /\ objects[i].fighter # None

----------------------------------------------------------------------------
(* Generation *)

(* two rectangles that the inclusive test keeps apart *)
Apart(a, b) == a.x2 < b.x1 \/ b.x2 < a.x1 \/ a.y2 < b.y1 \/ b.y2 < a.y1

(* the same cell, or neighbours (the diagonal ones included) *)
Adjacent(c, e) == Abs(c[1] - e[1]) <= 1 /\ Abs(c[2] - e[2]) <= 1

(* C11: any two accepted rooms are apart under the inclusive test.  A      *)
(* candidate that collides with an accepted room is skipped: nothing is    *)
(* carved or placed and the rooms stay as they were.  Any other candidate  *)
(* is appended after the earlier rooms, and no cell of its interior is the *)
(* same as, or adjacent to, an interior cell of an earlier room.           *)
C11_RoomNonOverlap ==
    /\ [](\A k \in 1..Len(rooms) : \A l \in 1..Len(rooms) :
             k < l => Apart(rooms[k], rooms[l]))
    /\ [][call'.fn = "make_map" =>
             LET cand == call'.room[1]
             IN  IF \E k \in 1..Len(rooms) : ~Apart(cand, rooms[k])
                 THEN /\ call'.ret = "skipped"
                      /\ rooms' = rooms
                      /\ map' = map
                      /\ objects' = objects
                 ELSE /\ call'.ret = "accepted"
                      /\ rooms' = Append(rooms, cand)
                      /\ \A k \in 1..Len(rooms) :
                           \A c \in Interior(cand) : \A e \in Interior(rooms[k]) :
                               ~Adjacent(c, e)]_vars

(* a candidate that only touches an accepted room's edge was skipped, with *)
(* two rooms accepted                                                      *)
C11_Witness ==
    /\ call.fn = "make_map"
    /\ call.ret = "skipped"
    /\ Len(rooms) = 2
    /\ \E k \in 1..Len(rooms) : call.room[1].x1 = rooms[k].x2

Step4(c) == {<<c[1] + 1, c[2]>>, <<c[1] - 1, c[2]>>, <<c[1], c[2] + 1>>, <<c[1], c[2] - 1>>}

(* the cells of W that a path of cells of W reaches from the frontier *)
RECURSIVE Flood(_, _, _)
Flood(frontier, seen, W) ==
    IF frontier = {} THEN seen
    ELSE LET nxt == ((UNION {Step4(c) : c \in frontier}) \cap W) \ seen
         IN  Flood(nxt, seen \cup nxt, W)

(* the cells from a to b, two cells of one row or of one column *)
Segment(a, b) ==
    {<<x, y>> : x \in Min(a[1], b[1])..Max(a[1], b[1]), y \in Min(a[2], b[2])..Max(a[2], b[2])}

(* C12: once a room is accepted the player stands on the first room's      *)
(* centre, and every interior cell of every accepted room is reached from  *)
(* there by a path of walkable cells (steps along rows and columns only).  *)
(* Accepting a later room carves its interior and an L-shaped corridor:    *)
(* the two straight legs from the previous centre to a corner and from the *)
(* corner to the new centre, both centres and the corner included, the     *)
(* corner being (new_x, prev_y) or (prev_x, new_y); nothing else changes.  *)
C12_Connectivity ==
    /\ [](rooms # <<>> =>
             LET spawn == center(rooms[1])
                 reach == Flood({spawn}, {spawn}, map.is_walkable)
             IN  /\ Pos(objects[PLAYER]) = spawn
                 /\ spawn \in map.is_walkable
                 /\ \A k \in 1..Len(rooms) : Interior(rooms[k]) \subseteq reach)
    /\ [][(call'.fn = "make_map" /\ call'.ret = "accepted" /\ rooms # <<>>) =>
             LET new == center(call'.room[1])
                 old == center(rooms[Len(rooms)])
             IN  /\ prev = old
                 /\ prev' = new
                 /\ \E corner \in {<<new[1], old[2]>>, <<old[1], new[2]>>} :
                      map'.is_walkable = map.is_walkable \cup Interior(call'.room[1])
                                            \cup Segment(old, corner) \cup Segment(corner, new)]_vars

(* generation has ended with three rooms, the first of them the room       *)
(* diagonally below the corner room, and the corridor to the second room   *)
(* turns at a corner cell that lies in no room                             *)
C12_Witness ==
    /\ pc = "setup"
    /\ Len(rooms) = 3
    /\ rooms[1].x1 = 7
    /\ LET corner == <<center(rooms[2])[1], center(rooms[1])[2]>>
       IN  /\ corner \in map.is_walkable
           /\ \A k \in 1..Len(rooms) : corner \notin Interior(rooms[k])

(* C15: for an accepted room place_objects adds between 0 and              *)
(* MAX_ROOM_MONSTERS objects at the end of the store and changes no        *)
(* earlier object.  Each added object is strictly inside the room, on a    *)
(* walkable tile, blocking, alive, with an AI and a Fighter of the Monster *)
(* death variant with hp = max_hp.  One object is added for every sampled  *)
(* position that an earlier blocking object does not hold, and none for a  *)
(* slot whose position is held: no two added objects share a tile.         *)
C15_PopulationSeeding ==
    [][(call'.fn = "make_map" /\ call'.ret = "accepted") =>
          LET room == call'.room[1]
              n0 == Len0(objects)
              n1 == Len0(objects')
              spots == {<<call'.draws[k].x, call'.draws[k].y>> : k \in 1..Len(call'.draws)}
              held == {c \in spots : \E j \in DOMAIN objects :
                                         ~objects[j].is_walkable /\ Pos(objects[j]) = c}
          IN  /\ DOMAIN objects' = 0..(n1 - 1)
              /\ n1 - n0 \in 0..MAX_ROOM_MONSTERS
              /\ n1 - n0 = Cardinality(spots \ held)
              /\ {Pos(objects'[i]) : i \in n0..(n1 - 1)} = spots \ held
              /\ \A i \in DOMAIN objects \ {PLAYER} : objects'[i] = objects[i]
              /\ objects'[PLAYER] = [objects[PLAYER] EXCEPT !.x = objects'[PLAYER].x,
                                                           !.y = objects'[PLAYER].y]
              /\ \A i \in n0..(n1 - 1) :
                   LET o == objects'[i]
                   IN  /\ room.x1 < o.x /\ o.x < room.x2
                       /\ room.y1 < o.y /\ o.y < room.y2
                       /\ Pos(o) \in map'.is_walkable
                       /\ ~o.is_walkable
                       /\ o.is_alive
                       /\ o.ai # None
                       /\ o.fighter # None
                       /\ o.fighter[1].on_death = "Monster"
                       /\ o.fighter[1].hp = o.fighter[1].max_hp
                       /\ o.fighter[1].hp > 0]_vars

(* three slots were drawn for a room and two monsters were added: one slot *)
(* sampled a position that a monster of an earlier slot holds              *)
C15_Witness ==
    /\ call.fn = "make_map"
    /\ call.ret = "accepted"
    /\ Len(call.draws) = MAX_ROOM_MONSTERS
    /\ Len0(objects) = 3
    /\ \E k \in 1..Len(call.draws) : \E l \in 1..Len(call.draws) :
         k < l /\ call.draws[k].x = call.draws[l].x /\ call.draws[k].y = call.draws[l].y

(* C16, as claimed: from the end of make_map on, no two blocking objects   *)
(* (the player, living monsters) are on the same tile.                     *)
C16_NoStacking ==
    pc # "make_map" =>
        \A i \in DOMAIN objects : \A j \in DOMAIN objects :
            (i < j /\ ~objects[i].is_walkable /\ ~objects[j].is_walkable)
                => Pos(objects[i]) # Pos(objects[j])

----------------------------------------------------------------------------
(* Visibility *)

FovAt(o) == compute_fov(o.x, o.y, TORCH_RADIUS, map.is_transparent)

InPlay == pc \in {"loop", "monsters", "render"}

(* C13: the step that resolves the player's action sets recompute_fov      *)
(* exactly if the player's position changed, and computes nothing; the     *)
(* render that follows computes the field of view exactly if recompute_fov *)
(* is set, and otherwise leaves it as it was; no other step changes it.    *)
(* After every render the field of view is the one computed from the       *)
(* player's position.                                                      *)
C13_RecomputeGating ==
    /\ [](pc = "loop" => fov = FovAt(objects[PLAYER]))
    /\ [][/\ (pc = "loop" /\ pc' \in {"monsters", "render"}) =>
               /\ recompute_fov' = (Pos(objects'[PLAYER]) # Pos(objects[PLAYER]))
               /\ fov' = fov
          /\ pc = "monsters" =>
               /\ fov' = fov
               /\ recompute_fov' = recompute_fov
               /\ Pos(objects'[PLAYER]) = Pos(objects[PLAYER])
          /\ pc = "render" =>
               /\ pc' = "loop"
               /\ fov' = (IF recompute_fov THEN FovAt(objects[PLAYER]) ELSE fov)]_vars

(* a render without recomputation has followed an attack of the player,    *)
(* which took a turn and left the player where it was                      *)
C13_Witness ==
    /\ pc = "loop"
    /\ call.fn = "render_all"
    /\ ~recompute_fov
    /\ player_action = "TookTurn"
    /\ key \in MoveKeys

(* C14: in play no step takes a tile out of the explored ones (the tiles   *)
(* explored after a step include those explored before it); only a render *)
(* adds tiles, and the tiles explored after a render are those explored    *)
(* before it and those in the field of view at that render, so that every  *)
(* tile of the field of view is explored after the render.                 *)
C14_ExploredMonotonic ==
    /\ [][(InPlay \/ pc = "setup") =>
             /\ map'.explored = map.explored \cup map'.explored
             /\ map'.is_walkable = map.is_walkable
             /\ map'.is_transparent = map.is_transparent
             /\ IF pc \in {"render", "setup"}
                THEN map'.explored = map.explored \cup fov'
                ELSE map'.explored = map.explored]_vars
    /\ [](pc = "loop" => map.explored = map.explored \cup fov)

(* after a render a tile is explored that is not in the field of view      *)
C14_Witness ==
    /\ pc = "loop"
    /\ call.fn = "render_all"
    /\ map.explored \ fov # {}
    /\ fov # {}

----------------------------------------------------------------------------
(* Input, awareness and death in play *)

(* C17, as claimed: a loop iteration that receives a mouse event or no     *)
(* event resolves no player action: no object and no message changes, and  *)
(* the monsters do not take a turn.                                        *)
C17_StaleInput ==
    [][(call'.fn = "handle_keys" /\ call'.act \in {"Mouse", "None"}) =>
          /\ objects' = objects
          /\ messages' = messages
          /\ pc' # "monsters"]_vars

(* C18, as claimed: in its step of the monster-turn loop, a living monster *)
(* with an AI whose tile is in the field of view computed from the         *)
(* player's position at that moment is flagged as seen and acts.           *)
C18_AwarenessCurrentFov ==
    [][\A i \in DOMAIN objects \ {PLAYER} :
          (/\ pc = "monsters"
           /\ id = i
           /\ objects[i].is_alive
           /\ objects[i].ai # None
           /\ Pos(objects[i]) \in FovAt(objects[PLAYER])) =>
              /\ objects'[i].was_seen
              /\ call'.fn = "ai_take_turn"
              /\ call'.id = i]_vars

C20_MonsterDeathOneWay ==
    [][InPlay =>
          /\ DOMAIN objects' = DOMAIN objects
          /\ \A i \in DOMAIN objects :
               objects'[i].name \in {objects[i].name, "remains of " \o objects[i].name}
          /\ \A i \in DOMAIN objects \ {PLAYER} :
               ~objects[i].is_alive =>
                  /\ objects[i].is_walkable
                  /\ objects'[i] = objects[i]
                  /\ ~(call'.fn = "ai_take_turn" /\ call'.id = i)
                  /\ ~(call'.fn = "handle_keys" /\ call'.target = i)
          /\ (call'.fn = "handle_keys" /\ key' \in MoveKeys /\ objects[PLAYER].is_alive) =>
               LET c == <<objects[PLAYER].x + call'.dx, objects[PLAYER].y + call'.dy>>
                   on == {j \in DOMAIN objects : Pos(objects[j]) = c}
               IN  (c \in map.is_walkable /\ on # {}
                      /\ \A j \in on : j # PLAYER /\ ~objects[j].is_alive) =>
                       /\ Pos(objects'[PLAYER]) = c
                       /\ call'.ret = "TookTurn"
                       /\ call'.target = -1]_vars

(* the living player has just stepped onto the tile of a dead monster      *)
C20_Witness ==
    /\ objects[PLAYER].is_alive
    /\ call.fn = "handle_keys"
    /\ call.ret = "TookTurn"
    /\ recompute_fov
    /\ \E i \in DOMAIN objects \ {PLAYER} :
         ~objects[i].is_alive /\ Pos(objects[i]) = Pos(objects[PLAYER])

----------------------------------------------------------------------------
(* Bounds *)

OnFloor(o) == InGrid(o.x, o.y) /\ Pos(o) \in map.is_walkable

(* C21: every index with which a call reads a tile is in the grid; every   *)
(* tile that carving has made walkable or transparent is in the grid;      *)
(* after generation every object is in the grid, on a walkable tile.  A    *)
(* move, of any object or by a key of the living player, that is aimed at  *)
(* a cell outside the grid reads no tile, returns DidntTakeTurn and        *)
(* changes no object.                                                      *)
C21_InBounds ==
    /\ [](\A c \in call.tiles : InGrid(c[1], c[2]))
    /\ [](\A c \in map.is_walkable \cup map.is_transparent : InGrid(c[1], c[2]))
    /\ [](pc # "make_map" => \A i \in DOMAIN objects : OnFloor(objects[i]))
    /\ [][(/\ call'.fn \in {"move_by", "handle_keys"}
           /\ call'.fn = "handle_keys" => (key' \in MoveKeys /\ objects[PLAYER].is_alive)
           /\ ~InGrid(objects[call'.id].x + call'.dx, objects[call'.id].y + call'.dy)) =>
              /\ call'.tiles = {}
              /\ call'.ret = "DidntTakeTurn"
              /\ objects' = objects]_vars

(* an object on the last column or row of the map was asked to step past   *)
(* the edge, and stayed                                                    *)
C21_Witness ==
    /\ pc = "done"
    /\ call.fn = "move_by"
    /\ call.ret = "DidntTakeTurn"
    /\ objects[call.id].x + call.dx >= MAP_WIDTH \/ objects[call.id].y + call.dy >= MAP_HEIGHT

(* C22: every object with a Fighter has 0 <= hp <= max_hp and is alive     *)
(* exactly if hp > 0.  No step raises the hp of an object (read as 0 once  *)
(* the Fighter is gone) or takes it below 0, and max_hp never changes.     *)
C22_HealthInvariant ==
    /\ [](\A i \in DOMAIN objects :
             objects[i].fighter # None =>
                LET f == objects[i].fighter[1]
                IN  /\ 0 <= f.hp
                    /\ f.hp <= f.max_hp
                    /\ objects[i].is_alive <=> f.hp > 0)
    /\ [][\A i \in DOMAIN objects :
             /\ i \in DOMAIN objects'
             /\ HpOf(objects'[i]) <= HpOf(objects[i])
             /\ HpOf(objects'[i]) >= 0
             /\ objects'[i].fighter # None =>
                  /\ objects[i].fighter # None
                  /\ objects'[i].fighter[1].max_hp = objects[i].fighter[1].max_hp]_vars

(* an attack whose damage, 2, was more than the hp the player had left, 1, *)
(* has left the player dead with hp 0                                      *)
C22_Witness ==
    /\ pc = "done"
    /\ call.fn = "attack"
    /\ call.target = PLAYER
    /\ BagIn("troll attacks Player for 2 damage", messages)
    /\ ~objects[PLAYER].is_alive
    /\ objects[PLAYER].fighter # None
    /\ objects[PLAYER].fighter[1].hp = 0

====
